---------------------------- MODULE Spec2Model ----------------------------
(***************************************************************************)
(* Workflow editor of CommunityCody.                                       *)
(*                                                                         *)
(*   vscode/webviews/workflow/components/Flow.tsx   the webview: the graph *)
(*       (nodes, edges), topologicalEdgeSort, updateEdgeOrder, onExecute,  *)
(*       onAbort and the handler of the messages of the extension host     *)
(*   vscode/src/workflow/workflow.ts                the extension host:    *)
(*       the handler of the messages of the webview, which starts and      *)
(*       aborts executeWorkflow calls                                      *)
(*                                                                         *)
(* Three specifications share the variables:                               *)
(*   SpecSort  the sequencer (topologicalEdgeSort, updateEdgeOrder) on     *)
(*             every node list and edge list within the bounds             *)
(*   SpecUI    onExecute / onAbort / message handler of the webview        *)
(*   SpecHost  the message handler of registerWorkflowCommands             *)
(***************************************************************************)
EXTENDS Integers, Sequences, FiniteSets, TLC

(***************************************************************************)
(* Bounds of the model.                                                    *)
(***************************************************************************)
MaxNodes == 3
MaxEdges == 2
MaxUINodes == 1
MaxPosted == 2
MaxPanels == 2
MaxRuns == 2
MaxLoads == 1
MaxLoopNodes == 2
MaxLoopEdges == 2

(* NodeType of nodes/Nodes (the enum's members as used in Flow.tsx).       *)
NodeTypeCLI == "cli"
NodeTypeLLM == "llm"
NodeTypePREVIEW == "preview"
NodeTypeINPUT == "text-format"
NodeType == {NodeTypeCLI, NodeTypeLLM, NodeTypePREVIEW, NodeTypeINPUT}

VARIABLES
    \* the webview (Flow.tsx)
    nodes,              \* useState(defaultWorkflow.nodes): sequence of nodes
    edges,              \* useState(defaultWorkflow.edges): sequence of edges
    edgeOrder,          \* useState<Map<string, number>>: edge id -> number
    sortedNodes,        \* what topologicalEdgeSort returned to updateEdgeOrder
    pc,                 \* the edge-order effect: "changed" | "looping" | "ordered"
    loop,               \* queue, result and inDegree of topologicalEdgeSort's work loop
    nodeErrors,         \* useState<Map<string, string>>: node id -> message
    nodeResults,        \* useState<Map<string, string>>: node id -> result
    executingNodeId,    \* useState<string | null>
    isExecuting,        \* useState(false)
    abortController,    \* useState<AbortController | null>
    toExtension,        \* the messages given to vscodeAPI.postMessage, in order
    \* the extension host (workflow.ts)
    panels,             \* the panels createWebviewPanel made: "open" | "disposed"
    activeAbortController,  \* let activeAbortController: AbortController | null
    aborted,            \* aborted[k]: the signal of the k-th AbortController is aborted
    calls,              \* the executeWorkflow calls that have not returned
    fromExtension,      \* the messages given to panel.webview.postMessage
    lastMessage         \* what the host handled last: a message, a return, a dispose

graphVars == <<nodes, edges, edgeOrder, sortedNodes, pc, loop>>
uiVars == <<nodeErrors, nodeResults, executingNodeId, isExecuting, abortController,
            toExtension>>
hostVars == <<panels, activeAbortController, aborted, calls, fromExtension, lastMessage>>
vars == <<graphVars, uiVars, hostVars>>

(***************************************************************************)
(* Helpers for JavaScript arrays and Maps.  A Map is a function with a     *)
(* finite domain; Map.get of a missing key is undefined.                   *)
(***************************************************************************)
EmptyMap == [k \in {} |-> 0]

(* null where the code holds a node id, and where it holds an              *)
(* AbortController (a controller is [id |-> k], k counting from 1)         *)
NullId == 0
NoController == [id |-> 0]

(* topologicalEdgeSort is not running: no queue, no result, no in-degrees  *)
NoLoop == [queue |-> <<>>, result |-> <<>>, inDegree |-> EmptyMap]

MapSet(m, k, v) == [x \in (DOMAIN m) \cup {k} |-> IF x = k THEN v ELSE m[x]]

MapHas(m, k) == k \in DOMAIN m

(* m.get(k) || d  for a Map of numbers: undefined and 0 both give d        *)
MapGetOr(m, k, d) == IF MapHas(m, k) /\ m[k] # 0 THEN m[k] ELSE d

(* Array.prototype.findIndex, given for each element whether the test      *)
(* holds of it: the 0-based index of the first element that satisfies the  *)
(* test, -1 when there is none.                                            *)
FindIndex(holds) ==
    IF \E i \in DOMAIN holds : holds[i]
    THEN (CHOOSE i \in DOMAIN holds : holds[i] /\ \A j \in 1..(i - 1) : ~holds[j]) - 1
    ELSE -1

(***************************************************************************)
(* A node of the webview: WorkflowNode { id, type, data }, where data has  *)
(* the label and, by the node's kind, prompt, command or content.  A text  *)
(* is a sequence of characters; a field that is undefined is no field of   *)
(* the record.                                                             *)
(***************************************************************************)
Node(id, type, data) == [id |-> id, type |-> type, data |-> data]

(* Edge of CustomOrderedEdge: id, source, target                           *)
Edge(id, source, target) == [id |-> id, source |-> source, target |-> target]

(***************************************************************************)
(* topologicalEdgeSort (Flow.tsx 486-531)                                  *)
(***************************************************************************)

(* for (const node of nodes) { graph.set(node.id, []) ; inDegree.set(node.id, 0) } *)
RECURSIVE InitGraph(_, _)
InitGraph(graph, ns) ==
    IF ns = <<>> THEN graph
    ELSE InitGraph(MapSet(graph, Head(ns).id, <<>>), Tail(ns))

RECURSIVE InitInDegree(_, _)
InitInDegree(inDegree, ns) ==
    IF ns = <<>> THEN inDegree
    ELSE InitInDegree(MapSet(inDegree, Head(ns).id, 0), Tail(ns))

(* graph.get(edge.source)?.push(edge.target): nothing for an unknown source *)
RECURSIVE BuildGraph(_, _)
BuildGraph(graph, es) ==
    IF es = <<>> THEN graph
    ELSE LET edge == Head(es)
             pushed == IF MapHas(graph, edge.source)
                       THEN [graph EXCEPT ![edge.source] = Append(@, edge.target)]
                       ELSE graph
         IN  BuildGraph(pushed, Tail(es))

(* inDegree.set(edge.target, (inDegree.get(edge.target) || 0) + 1): an     *)
(* unknown target gets an entry too                                        *)
RECURSIVE BuildInDegree(_, _)
BuildInDegree(inDegree, es) ==
    IF es = <<>> THEN inDegree
    ELSE LET edge == Head(es)
         IN  BuildInDegree(
                 MapSet(inDegree, edge.target, MapGetOr(inDegree, edge.target, 0) + 1),
                 Tail(es))

(* nodes.filter(node => inDegree.get(node.id) === 0)                       *)
SourceNodes(ns, inDegree) ==
    SelectSeq(ns, LAMBDA node : MapHas(inDegree, node.id) /\ inDegree[node.id] = 0)

(* edges.findIndex(edge => edge.source === id)                             *)
EdgeIndex(es, id) == FindIndex([i \in DOMAIN es |-> es[i].source = id])

(* faulty variant: the comparator leaves the node-list order as it is       *)
CompareSourceNodes_Equal(a, b, es) == 0

(* the comparator of sourceNodes.sort: aEdgeIndex - bEdgeIndex             *)
CompareSourceNodes(a, b, es) == EdgeIndex(es, a.id) - EdgeIndex(es, b.id)

(* faulty variant: a sort that is not stable, equal elements change places  *)
RECURSIVE InsertSorted_Unstable(_, _, _)
InsertSorted_Unstable(sorted, x, es) ==
    IF sorted = <<>> THEN <<x>>
    ELSE LET last == sorted[Len(sorted)]
         IN  IF CompareSourceNodes(last, x, es) < 0
             THEN Append(sorted, x)
             ELSE Append(InsertSorted_Unstable(SubSeq(sorted, 1, Len(sorted) - 1), x, es),
                         last)

(* Array.prototype.sort is stable (ECMAScript 2019): an element goes       *)
(* behind every element that does not compare greater than it.             *)
RECURSIVE InsertSorted(_, _, _)
InsertSorted(sorted, x, es) ==
    IF sorted = <<>> THEN <<x>>
    ELSE LET last == sorted[Len(sorted)]
         IN  IF CompareSourceNodes(last, x, es) <= 0
             THEN Append(sorted, x)
             ELSE Append(InsertSorted(SubSeq(sorted, 1, Len(sorted) - 1), x, es), last)

RECURSIVE SortSourceNodes(_, _)
SortSourceNodes(ns, es) ==
    IF ns = <<>> THEN <<>>
    ELSE InsertSorted(SortSourceNodes(SubSeq(ns, 1, Len(ns) - 1), es), ns[Len(ns)], es)

(* faulty variant: the neighbour is pushed whatever its remaining in-degree *)
ReachedZero_NoCheck(inDegree, neighbor) == TRUE

(* if (inDegree.get(neighbor) === 0) queue.push(neighbor)                  *)
ReachedZero(inDegree, neighbor) == inDegree[neighbor] = 0

(* for (const neighbor of neighbors) { decrement ; push when it reaches 0 } *)
RECURSIVE VisitNeighbors(_, _, _)
VisitNeighbors(neighbors, queue, inDegree) ==
    IF neighbors = <<>> THEN [queue |-> queue, inDegree |-> inDegree]
    ELSE LET neighbor == Head(neighbors)
             dec == MapSet(inDegree, neighbor, MapGetOr(inDegree, neighbor, 0) - 1)
             q2 == IF ReachedZero(dec, neighbor) THEN Append(queue, neighbor) ELSE queue
         IN  VisitNeighbors(Tail(neighbors), q2, dec)

(* one pass of the body of the while loop (516-527): shift, result.push,   *)
(* visit the neighbors                                                     *)
Iteration(queue, result, inDegree, graph) ==
    LET nodeId == Head(queue)
        step == IF MapHas(graph, nodeId)
                THEN VisitNeighbors(graph[nodeId], Tail(queue), inDegree)
                ELSE [queue |-> Tail(queue), inDegree |-> inDegree]
    IN  [queue |-> step.queue, result |-> Append(result, nodeId),
         inDegree |-> step.inDegree]

(* while (queue.length > 0) { ... }                                        *)
RECURSIVE QueueLoop(_, _, _, _)
QueueLoop(queue, result, inDegree, graph) ==
    IF queue = <<>> THEN result
    ELSE LET next == Iteration(queue, result, inDegree, graph)
         IN  QueueLoop(next.queue, next.result, next.inDegree, graph)

(* nodes.find(node => node.id === id): the index of the node found (from  *)
(* 1), 0 for undefined                                                     *)
FindNode(ns, id) == FindIndex([i \in DOMAIN ns |-> ns[i].id = id]) + 1

(* result.map(id => nodes.find(...)!).filter(Boolean)                      *)
RECURSIVE MapToNodes(_, _)
MapToNodes(result, ns) ==
    IF result = <<>> THEN <<>>
    ELSE LET found == FindNode(ns, Head(result))
         IN  IF found = 0 THEN MapToNodes(Tail(result), ns)
             ELSE <<ns[found]>> \o MapToNodes(Tail(result), ns)

(* the order of ids the work loop produces, before the final map/filter    *)
SortedIds(ns, es) ==
    LET graph == BuildGraph(InitGraph(EmptyMap, ns), es)
        inDegree == BuildInDegree(InitInDegree(EmptyMap, ns), es)
        sortedSourceNodes == SortSourceNodes(SourceNodes(ns, inDegree), es)
        queue == [i \in DOMAIN sortedSourceNodes |-> sortedSourceNodes[i].id]
    IN  QueueLoop(queue, <<>>, inDegree, graph)

topologicalEdgeSort(ns, es) == MapToNodes(SortedIds(ns, es), ns)

(* faulty variant: the sort is applied to the nodes array itself            *)
NodesAfterSort_InPlace(ns, es) == SortSourceNodes(ns, es)

(* what a call leaves in its argument nodes: filter (505) returns a new    *)
(* array and it is that array sort (508) reorders in place; nodes is only  *)
(* read (for-of, filter, find)                                             *)
NodesAfterSort(ns, es) == ns

(* what a call leaves in its argument edges: only for-of and findIndex     *)
EdgesAfterSort(ns, es) == es

(***************************************************************************)
(* updateEdgeOrder (Flow.tsx 222-240)                                      *)
(***************************************************************************)

(* for (const edge of sourceEdges) orderMap.set(edge.id, sequentialNumber++) *)
RECURSIVE NumberEdges(_, _, _)
NumberEdges(sourceEdges, orderMap, sequentialNumber) ==
    IF sourceEdges = <<>>
    THEN [orderMap |-> orderMap, sequentialNumber |-> sequentialNumber]
    ELSE NumberEdges(Tail(sourceEdges),
                     MapSet(orderMap, Head(sourceEdges).id, sequentialNumber),
                     sequentialNumber + 1)

(* for (const node of sortedNodes) { number the edges that start from it } *)
RECURSIVE NumberNodes(_, _, _, _)
NumberNodes(sorted, es, orderMap, sequentialNumber) ==
    IF sorted = <<>> THEN orderMap
    ELSE LET node == Head(sorted)
             sourceEdges == SelectSeq(es, LAMBDA edge : edge.source = node.id)
             numbered == NumberEdges(sourceEdges, orderMap, sequentialNumber)
         IN  NumberNodes(Tail(sorted), es, numbered.orderMap, numbered.sequentialNumber)

(* faulty variant: the numbering starts at 0                                *)
OrderMap_FromZero(sorted, es) == NumberNodes(sorted, es, EmptyMap, 0)

(* faulty variant: the counter is kept from one call to the next            *)
OrderMap_Carried(sorted, es) ==
    NumberNodes(sorted, es, EmptyMap, 1 + Cardinality(DOMAIN edgeOrder))

(* const orderMap = new Map() ; let sequentialNumber = 1                   *)
OrderMap(sorted, es) == NumberNodes(sorted, es, EmptyMap, 1)

(* edgesWithOrder (246-256): orderNumber: edgeOrder.get(edge.id) || 0      *)
OrderNumber(order, edge) == MapGetOr(order, edge.id, 0)

(***************************************************************************)
(* SpecSort: the sequencer on every node list and edge list in the bounds. *)
(* Node ids are opaque strings the code only compares for equality, so the *)
(* node lists are enumerated up to a renaming of the ids: the k-th new id  *)
(* of a list is k.  A list may repeat an id, and an edge may name an id    *)
(* that no node of the list has.                                           *)
(***************************************************************************)
NodeIds == 1..MaxNodes

SortNode(id, label) == Node(id, NodeTypeINPUT, [label |-> label, content |-> <<>>])

IdLists ==
    { s \in UNION {[1..n -> NodeIds] : n \in 0..MaxNodes} :
        \A i \in DOMAIN s : s[i] <= 1 + Cardinality({s[j] : j \in 1..(i - 1)}) }

NodeLists == { [i \in DOMAIN s |-> SortNode(s[i], i)] : s \in IdLists }

EndPoints == NodeIds \X NodeIds

(* the id of an edge is its position: edge ids are unique, parallel edges  *)
(* and self-loops occur                                                    *)
EdgeLists ==
    { [i \in DOMAIN s |-> Edge(i, s[i][1], s[i][2])] :
        s \in UNION {[1..n -> EndPoints] : n \in 0..MaxEdges} }

(* The graphs of the scenarios of the design: the diamond A->B, A->C,      *)
(* B->D, C->D and the three roots X, Y, Z that feed W.                     *)
Diamond ==
    [nodes |-> [i \in 1..4 |-> SortNode(i, i)],
     edges |-> <<Edge(1, 1, 2), Edge(2, 1, 3), Edge(3, 2, 4), Edge(4, 3, 4)>>]

FanIn ==
    [nodes |-> [i \in 1..4 |-> SortNode(i, i)],
     edges |-> <<Edge(1, 1, 4), Edge(2, 2, 4), Edge(3, 3, 4)>>]

(* A -> B -> C -> A, and a chain whose edges are listed back to front     *)
Triangle ==
    [nodes |-> [i \in 1..3 |-> SortNode(i, i)],
     edges |-> <<Edge(1, 1, 2), Edge(2, 2, 3), Edge(3, 3, 1)>>]

Chain ==
    [nodes |-> [i \in 1..4 |-> SortNode(i, i)],
     edges |-> <<Edge(1, 3, 4), Edge(2, 2, 3), Edge(3, 1, 2)>>]

(* two roots whose edges are listed against the node order, and a node    *)
(* without edges at the end of the node list                               *)
Roots ==
    [nodes |-> [i \in 1..4 |-> SortNode(i, i)],
     edges |-> <<Edge(1, 2, 3), Edge(2, 1, 3)>>]

(* two nodes without edges around an edge that runs against the node order *)
Islands ==
    [nodes |-> [i \in 1..4 |-> SortNode(i, i)],
     edges |-> <<Edge(1, 3, 2)>>]

Scenarios == {Diamond, FanIn, Triangle, Chain, Roots, Islands}

(* the webview as the component is mounted (Flow.tsx 26-39, 284)           *)
InitUIState ==
    /\ nodeErrors = EmptyMap
    /\ nodeResults = EmptyMap
    /\ executingNodeId = NullId
    /\ isExecuting = FALSE
    /\ abortController = NoController
    /\ toExtension = <<>>

(* the extension host after registerWorkflowCommands (workflow.ts 21-23)   *)
InitHostState ==
    /\ panels = <<>>
    /\ activeAbortController = NoController
    /\ aborted = <<>>
    /\ calls = {}
    /\ fromExtension = <<>>
    /\ lastMessage = [type |-> "none", panel |-> 0]

InitSort ==
    /\ \/ nodes \in NodeLists /\ edges \in EdgeLists
       \/ \E g \in Scenarios : nodes = g.nodes /\ edges = g.edges
    /\ edgeOrder = EmptyMap
    /\ sortedNodes = <<>>
    /\ pc = "changed"
    /\ loop = NoLoop
    /\ InitUIState
    /\ InitHostState

(* useEffect(() => updateEdgeOrder(), [updateEdgeOrder]): runs after the   *)
(* render that follows a change of nodes or edges                          *)
updateEdgeOrder ==
    /\ pc = "changed"
    /\ sortedNodes' = topologicalEdgeSort(nodes, edges)
    /\ edgeOrder' = OrderMap(sortedNodes', edges)
    /\ pc' = "ordered"
    /\ nodes' = NodesAfterSort(nodes, edges)
    /\ edges' = EdgesAfterSort(nodes, edges)
    /\ UNCHANGED <<loop, uiVars, hostVars>>

NextSort == updateEdgeOrder

SpecSort == InitSort /\ [][NextSort]_vars

(***************************************************************************)
(* SpecLoop: topologicalEdgeSort one pass of its work loop at a time, on   *)
(* every node list and edge list in the bounds: ids are repeated, edges    *)
(* are parallel, close cycles, are self-loops and name ids no node has.    *)
(***************************************************************************)
LoopIdLists ==
    { s \in UNION {[1..n -> 1..MaxLoopNodes] : n \in 0..MaxLoopNodes} :
        \A i \in DOMAIN s : s[i] <= 1 + Cardinality({s[j] : j \in 1..(i - 1)}) }

LoopNodeLists == { [i \in DOMAIN s |-> SortNode(s[i], i)] : s \in LoopIdLists }

LoopEdgeLists ==
    { [i \in DOMAIN s |-> Edge(i, s[i][1], s[i][2])] :
        s \in UNION {[1..n -> (1..MaxLoopNodes) \X (1..MaxLoopNodes)] :
                        n \in 0..MaxLoopEdges} }

(* a root before a cycle: R -> A -> B -> A                                 *)
Lasso ==
    [nodes |-> [i \in 1..3 |-> SortNode(i, i)],
     edges |-> <<Edge(1, 1, 2), Edge(2, 2, 3), Edge(3, 3, 2)>>]

(* a node listed twice that feeds a third                                  *)
Twins ==
    [nodes |-> <<SortNode(1, 1), SortNode(1, 2), SortNode(2, 3)>>,
     edges |-> <<Edge(1, 1, 2), Edge(2, 1, 2)>>]

LoopScenarios == Scenarios \cup {Lasso, Twins}

InitLoop ==
    /\ \/ nodes \in LoopNodeLists /\ edges \in LoopEdgeLists
       \/ \E g \in LoopScenarios : nodes = g.nodes /\ edges = g.edges
    /\ edgeOrder = EmptyMap
    /\ sortedNodes = <<>>
    /\ pc = "changed"
    /\ loop = NoLoop
    /\ InitUIState
    /\ InitHostState

(* the graph of topologicalEdgeSort: it is built before the loop (487-500) *)
(* and the loop only reads it                                              *)
Graph(ns, es) == BuildGraph(InitGraph(EmptyMap, ns), es)

(* topologicalEdgeSort up to the loop (487-514): graph, inDegree, the      *)
(* sorted source nodes as the queue, result = []                           *)
enterLoop ==
    /\ pc = "changed"
    /\ LET inDegree == BuildInDegree(InitInDegree(EmptyMap, nodes), edges)
           sortedSourceNodes == SortSourceNodes(SourceNodes(nodes, inDegree), edges)
       IN  loop' = [queue |-> [i \in DOMAIN sortedSourceNodes |-> sortedSourceNodes[i].id],
                    result |-> <<>>,
                    inDegree |-> inDegree]
    /\ pc' = "looping"
    /\ UNCHANGED <<nodes, edges, edgeOrder, sortedNodes, uiVars, hostVars>>

(* while (queue.length > 0): one pass of the body                          *)
iterate ==
    /\ pc = "looping"
    /\ loop.queue # <<>>
    /\ loop' = Iteration(loop.queue, loop.result, loop.inDegree, Graph(nodes, edges))
    /\ UNCHANGED <<nodes, edges, edgeOrder, sortedNodes, pc, uiVars, hostVars>>

(* the queue is empty: return result.map(...).filter(Boolean) (530), and   *)
(* updateEdgeOrder numbers the edges                                       *)
leaveLoop ==
    /\ pc = "looping"
    /\ loop.queue = <<>>
    /\ sortedNodes' = MapToNodes(loop.result, nodes)
    /\ edgeOrder' = OrderMap(sortedNodes', edges)
    /\ pc' = "ordered"
    /\ UNCHANGED <<nodes, edges, loop, uiVars, hostVars>>

NextLoop == enterLoop \/ iterate \/ leaveLoop

(* the loop is synchronous code: it goes on until it returns               *)
SpecLoop == InitLoop /\ [][NextLoop]_vars /\ WF_vars(NextLoop)


(***************************************************************************)
(* Properties of graphs, stated without the sequencer.                     *)
(***************************************************************************)
IdsOf(ns) == {ns[i].id : i \in DOMAIN ns}

UniqueIds(ns) == \A i, j \in DOMAIN ns : ns[i].id = ns[j].id => i = j

UniqueEdgeIds(es) == \A i, j \in DOMAIN es : es[i].id = es[j].id => i = j

EdgesReferToNodes(ns, es) ==
    \A i \in DOMAIN es : es[i].source \in IdsOf(ns) /\ es[i].target \in IdsOf(ns)

ValidGraph(ns, es) == UniqueIds(ns) /\ UniqueEdgeIds(es) /\ EdgesReferToNodes(ns, es)

Successors(S, es) == {es[i].target : i \in {j \in DOMAIN es : es[j].source \in S}}

(* the ids reached from S over at most k edges                             *)
RECURSIVE ReachedFrom(_, _, _)
ReachedFrom(S, es, k) ==
    IF k = 0 THEN S ELSE ReachedFrom(S \cup Successors(S, es), es, k - 1)

(* some edge closes a cycle: its source is reached from its target         *)
Cyclic(es) ==
    \E i \in DOMAIN es : es[i].source \in ReachedFrom({es[i].target}, es, Len(es))

(* position of the node with this id in a sequence of nodes, 0 if absent   *)
PositionOf(ns, id) ==
    IF id \in {ns[i].id : i \in DOMAIN ns}
    THEN CHOOSE i \in DOMAIN ns : ns[i].id = id /\ \A j \in 1..(i - 1) : ns[j].id # id
    ELSE 0

Occurrences(ns, node) == Cardinality({j \in DOMAIN ns : ns[j] = node})

(***************************************************************************)
(* C1: for a graph with unique node ids, edges between existing nodes and  *)
(* no cycle, topologicalEdgeSort returns every node exactly once and every *)
(* edge's source before its target.                                        *)
(***************************************************************************)
C1_OrderValid ==
    (pc = "ordered" /\ ValidGraph(nodes, edges) /\ ~Cyclic(edges)) =>
        /\ Len(sortedNodes) = Len(nodes)
        /\ \A i \in DOMAIN nodes : Occurrences(sortedNodes, nodes[i]) = 1
        /\ \A i \in DOMAIN edges :
              PositionOf(sortedNodes, edges[i].source)
                  < PositionOf(sortedNodes, edges[i].target)

(* the diamond has been ordered: a node with two predecessors was reached  *)
C1_Witness ==
    /\ pc = "ordered"
    /\ nodes = Diamond.nodes /\ edges = Diamond.edges
    /\ [i \in DOMAIN sortedNodes |-> sortedNodes[i].id] = <<1, 2, 3, 4>>


(***************************************************************************)
(* The seeds of the work loop: the nodes no edge points at.  The loop      *)
(* appends to the back of the queue, so the seeds are the first entries of *)
(* the returned order.                                                     *)
(***************************************************************************)
IsSeed(node, es) == \A i \in DOMAIN es : es[i].target # node.id

HasOutgoing(node, es) == \E i \in DOMAIN es : es[i].source = node.id

(* position (from 1) of the node's first outgoing edge in the edge list    *)
FirstOutgoing(node, es) ==
    CHOOSE i \in DOMAIN es :
        es[i].source = node.id /\ \A j \in 1..(i - 1) : es[j].source # node.id

SeedCount(ns, es) == Cardinality({i \in DOMAIN ns : IsSeed(ns[i], es)})

(* the first entries of the order are the seeds, each listed once          *)
SeedsLead(sorted, ns, es) ==
    /\ Len(sorted) >= SeedCount(ns, es)
    /\ \A i \in DOMAIN ns :
          IsSeed(ns[i], es) =>
              \E j \in 1..SeedCount(ns, es) : sorted[j] = ns[i]

(* among the seeds: ascending first outgoing edge, and node-list order for *)
(* those without an outgoing edge                                          *)
SeedsAscend(sorted, ns, es) ==
    \A i, j \in 1..SeedCount(ns, es) :
        i < j =>
            /\ (HasOutgoing(sorted[i], es) /\ HasOutgoing(sorted[j], es))
                  => FirstOutgoing(sorted[i], es) < FirstOutgoing(sorted[j], es)
            /\ (~HasOutgoing(sorted[i], es) /\ ~HasOutgoing(sorted[j], es))
                  => PositionOf(ns, sorted[i].id) < PositionOf(ns, sorted[j].id)

(***************************************************************************)
(* C7 as stated: in the returned order the in-degree-0 nodes are in        *)
(* ascending position of their first outgoing edge, and those with no      *)
(* outgoing edge come AFTER all those that have one, in node-list order.   *)
(***************************************************************************)
C7_SeedsWithoutEdgesLast ==
    (pc = "ordered" /\ UniqueIds(nodes)) =>
        /\ SeedsLead(sortedNodes, nodes, edges)
        /\ SeedsAscend(sortedNodes, nodes, edges)
        /\ \A i, j \in 1..SeedCount(nodes, edges) :
              i < j => ~(~HasOutgoing(sortedNodes[i], edges)
                            /\ HasOutgoing(sortedNodes[j], edges))

(***************************************************************************)
(* C7 amended: in the returned order the in-degree-0 nodes are in          *)
(* ascending position of their first outgoing edge, and those with no      *)
(* outgoing edge come BEFORE all those that have one (findIndex gives them *)
(* -1), in node-list order.                                                *)
(***************************************************************************)
C7_SeedsWithoutEdgesFirst ==
    (pc = "ordered" /\ UniqueIds(nodes)) =>
        /\ SeedsLead(sortedNodes, nodes, edges)
        /\ SeedsAscend(sortedNodes, nodes, edges)
        /\ \A i, j \in 1..SeedCount(nodes, edges) :
              i < j => ~(HasOutgoing(sortedNodes[i], edges)
                            /\ ~HasOutgoing(sortedNodes[j], edges))

(* ordered: two seeds with edges whose first edges are listed against the  *)
(* node order, and a seed without edges that stands last in the node list  *)
C7_Witness ==
    /\ pc = "ordered"
    /\ nodes = Roots.nodes /\ edges = Roots.edges
    /\ IsSeed(nodes[1], edges) /\ IsSeed(nodes[2], edges) /\ IsSeed(nodes[4], edges)
    /\ FirstOutgoing(nodes[2], edges) < FirstOutgoing(nodes[1], edges)
    /\ ~HasOutgoing(nodes[4], edges)
    /\ sortedNodes = <<nodes[4], nodes[2], nodes[1], nodes[3]>>


(***************************************************************************)
(* C8: for a valid acyclic graph updateEdgeOrder gives the edges exactly   *)
(* the numbers 1..|E|, each once; an edge whose source is earlier in the   *)
(* execution order gets the smaller number, and the edges of one source    *)
(* are numbered consecutively in edge-list order.                          *)
(***************************************************************************)
EdgeIdsOf(es) == {es[i].id : i \in DOMAIN es}

(* j is the next edge after i with the same source                         *)
NextOfSource(es, i, j) ==
    /\ i < j
    /\ es[i].source = es[j].source
    /\ \A k \in (i + 1)..(j - 1) : es[k].source # es[i].source

C8_EdgeNumbers ==
    (pc = "ordered" /\ ValidGraph(nodes, edges) /\ ~Cyclic(edges)) =>
        /\ DOMAIN edgeOrder = EdgeIdsOf(edges)
        /\ {edgeOrder[id] : id \in DOMAIN edgeOrder} = 1..Len(edges)
        /\ \A i \in DOMAIN edges : OrderNumber(edgeOrder, edges[i]) = edgeOrder[edges[i].id]
        /\ \A i, j \in DOMAIN edges :
              PositionOf(sortedNodes, edges[i].source)
                  < PositionOf(sortedNodes, edges[j].source)
              => edgeOrder[edges[i].id] < edgeOrder[edges[j].id]
        /\ \A i, j \in DOMAIN edges :
              NextOfSource(edges, i, j)
              => edgeOrder[edges[j].id] = edgeOrder[edges[i].id] + 1

(* the diamond: A's edges get 1, 2 and B's and C's edges get 3, 4          *)
C8_Witness ==
    /\ pc = "ordered"
    /\ nodes = Diamond.nodes /\ edges = Diamond.edges
    /\ edgeOrder = [id \in 1..4 |-> id]

(***************************************************************************)
(* C9 as stated: a graph with an edge to or from an unknown node id, or    *)
(* with a repeated node id, is rejected: the sequencer returns no order    *)
(* for it.                                                                 *)
(***************************************************************************)
C9_InvalidGraphRejected ==
    ~(UniqueIds(nodes) /\ EdgesReferToNodes(nodes, edges)) => pc # "ordered"

(* C9, the "in particular": the order returned for such a graph (without a *)
(* cycle) leaves no node out and lists no node twice                       *)
C9_OrderListsEveryNodeOnce ==
    (pc = "ordered" /\ ~Cyclic(edges)
        /\ ~(UniqueIds(nodes) /\ EdgesReferToNodes(nodes, edges))) =>
        \A i \in DOMAIN nodes : Occurrences(sortedNodes, nodes[i]) = 1

(***************************************************************************)
(* C15: topologicalEdgeSort on the empty graph returns the empty order,    *)
(* and in any valid graph every node that has no edge at all is in the     *)
(* order exactly once, such nodes keeping their relative node-list order.  *)
(***************************************************************************)
NoEdges(node, es) == IsSeed(node, es) /\ ~HasOutgoing(node, es)

C15_NodesWithoutEdges ==
    (pc = "ordered" /\ ValidGraph(nodes, edges)) =>
        /\ (nodes = <<>> /\ edges = <<>>) => sortedNodes = <<>>
        /\ \A i \in DOMAIN nodes :
              NoEdges(nodes[i], edges) => Occurrences(sortedNodes, nodes[i]) = 1
        /\ \A i, j \in DOMAIN nodes :
              (i < j /\ NoEdges(nodes[i], edges) /\ NoEdges(nodes[j], edges))
                  => PositionOf(sortedNodes, nodes[i].id)
                         < PositionOf(sortedNodes, nodes[j].id)

(* ordered: two nodes without edges, first and last in the node list, and  *)
(* between them an edge whose source stands behind its target              *)
C15_Witness ==
    /\ pc = "ordered"
    /\ nodes = Islands.nodes /\ edges = Islands.edges
    /\ NoEdges(nodes[1], edges) /\ NoEdges(nodes[4], edges)
    /\ sortedNodes = <<nodes[1], nodes[4], nodes[3], nodes[2]>>


Enqueued == loop.result \o loop.queue

TimesEnqueued(id) == Cardinality({i \in DOMAIN Enqueued : Enqueued[i] = id})

TimesListed(id) == Cardinality({i \in DOMAIN nodes : nodes[i].id = id})

(* the loop stepped pass by pass returns what the operator computes        *)
LoopIsTopologicalEdgeSort ==
    pc = "ordered" =>
        /\ loop.result = SortedIds(nodes, edges)
        /\ sortedNodes = topologicalEdgeSort(nodes, edges)

C4_CycleReported == Cyclic(edges) => pc # "ordered"


(***************************************************************************)
(* The webview: onExecute, onAbort, onClear and the handler of the         *)
(* messages of the extension host (Flow.tsx 166-210, 320-387)              *)
(***************************************************************************)

(* the characters String.prototype.trim removes, as far as the texts of    *)
(* the model have them                                                     *)
IsWhitespace(c) == c \in {" ", "\t", "\n"}

RECURSIVE TrimStart(_)
TrimStart(text) ==
    IF text # <<>> /\ IsWhitespace(Head(text)) THEN TrimStart(Tail(text)) ELSE text

RECURSIVE TrimEnd(_)
TrimEnd(text) ==
    IF text # <<>> /\ IsWhitespace(text[Len(text)])
    THEN TrimEnd(SubSeq(text, 1, Len(text) - 1))
    ELSE text

(* faulty variant: the prompt is compared as it is                          *)
Trim_Nothing(text) == text

(* String.prototype.trim                                                   *)
Trim(text) == TrimEnd(TrimStart(text))

(* !node.data.prompt || node.data.prompt.trim() === ''                     *)
PromptMissing(node) ==
    \/ "prompt" \notin DOMAIN node.data
    \/ node.data.prompt = <<>>
    \/ Trim(node.data.prompt) = <<>>

(* the filter of onExecute (168-173): only a node of type LLM can fail     *)
IsInvalidNode(node) ==
    IF node.type = NodeTypeLLM THEN PromptMissing(node) ELSE FALSE

InvalidNodes(ns) == SelectSeq(ns, IsInvalidNode)

(* a message is a text of one piece                                        *)
CommandRequired == <<"Command field is required">>
PromptRequired == <<"Prompt field is required">>

(* node.type === NodeType.CLI ? 'Command field is required' : 'Prompt ...' *)
ErrorMessage(node) ==
    IF node.type = NodeTypeCLI THEN CommandRequired ELSE PromptRequired

(* for (const node of invalidNodes) newErrors.set(node.id, errorMessage)   *)
RECURSIVE NewErrors(_, _)
NewErrors(newErrors, invalidNodes) ==
    IF invalidNodes = <<>> THEN newErrors
    ELSE NewErrors(MapSet(newErrors, Head(invalidNodes).id, ErrorMessage(Head(invalidNodes))),
                   Tail(invalidNodes))

(* faulty variant: the message is posted without the graph                  *)
ExecuteWorkflow_NoData(ns, es) ==
    [type |-> "execute_workflow", data |-> [nodes |-> <<>>, edges |-> <<>>]]

(* { type: 'execute_workflow', data: { nodes, edges } } (193-199)          *)
ExecuteWorkflow(ns, es) ==
    [type |-> "execute_workflow", data |-> [nodes |-> ns, edges |-> es]]

AbortWorkflow == [type |-> "abort_workflow"]

IsExecuteWorkflow(message) == message.type = "execute_workflow"

(* new AbortController(): an object no earlier call has made               *)
NewUIController ==
    [id |-> 1 + Cardinality({i \in DOMAIN toExtension : IsExecuteWorkflow(toExtension[i])})]

onExecute ==
    LET invalidNodes == InvalidNodes(nodes)
    IN  /\ IF Len(invalidNodes) > 0
           THEN /\ nodeErrors' = NewErrors(EmptyMap, invalidNodes)
                /\ UNCHANGED <<nodeResults, executingNodeId, isExecuting, abortController,
                               toExtension>>
           ELSE /\ Len(toExtension) < MaxPosted
                /\ nodeErrors' = EmptyMap
                /\ abortController' = NewUIController
                /\ toExtension' = Append(toExtension, ExecuteWorkflow(nodes, edges))
                /\ UNCHANGED <<nodeResults, executingNodeId, isExecuting>>
        /\ UNCHANGED <<graphVars, hostVars>>

(* faulty variant: the message is posted and the controller is kept         *)
onAbort_KeepsController ==
    /\ IF abortController # NoController
       THEN /\ Len(toExtension) < MaxPosted
            /\ toExtension' = Append(toExtension, AbortWorkflow)
            /\ UNCHANGED <<nodeErrors, nodeResults, executingNodeId, isExecuting,
                           abortController>>
       ELSE UNCHANGED uiVars
    /\ UNCHANGED <<graphVars, hostVars>>

(* abortController.abort() acts on an object whose signal nothing holds    *)
onAbort ==
    /\ IF abortController # NoController
       THEN /\ Len(toExtension) < MaxPosted
            /\ abortController' = NoController
            /\ toExtension' = Append(toExtension, AbortWorkflow)
            /\ UNCHANGED <<nodeErrors, nodeResults, executingNodeId, isExecuting>>
       ELSE UNCHANGED uiVars
    /\ UNCHANGED <<graphVars, hostVars>>

(* { ...node.data, ...data }                                               *)
Merge(data, update) ==
    [f \in (DOMAIN data) \cup (DOMAIN update) |->
        IF f \in DOMAIN update THEN update[f] ELSE data[f]]

(* faulty variant: the update is dropped                                    *)
onNodeUpdate_Dropped(ns, nodeId, data) == ns

(* onNodeUpdate (132-151): merge data into the data of the node nodeId     *)
onNodeUpdate(ns, nodeId, data) ==
    [i \in DOMAIN ns |->
        IF ns[i].id = nodeId
        THEN [ns[i] EXCEPT !.data = Merge(ns[i].data, data)]
        ELSE ns[i]]

(* event.data.data?.result ?? ''                                           *)
ResultOrEmpty(data) == IF "result" \in DOMAIN data THEN data.result ELSE <<>>

MapDelete(m, k) == [x \in (DOMAIN m) \ {k} |-> m[x]]

(* onNodeUpdate(node.id, { content: event.data.data?.result }): a result   *)
(* that is undefined leaves the node without content                       *)
PreviewContent(ns, nodeId, data) ==
    IF "result" \in DOMAIN data
    THEN onNodeUpdate(ns, nodeId, [content |-> data.result])
    ELSE [i \in DOMAIN ns |->
            IF ns[i].id = nodeId
            THEN [ns[i] EXCEPT !.data = [f \in (DOMAIN @) \ {"content"} |-> @[f]]]
            ELSE ns[i]]

(* the effect of 242-244 after a render with new nodes or edges            *)
EdgeOrderEffect ==
    /\ sortedNodes' = topologicalEdgeSort(nodes', edges')
    /\ edgeOrder' = OrderMap(sortedNodes', edges')
    /\ pc' = "ordered"
    /\ loop' = loop

(* case 'node_execution_status' (340-375); data is { nodeId, status } with *)
(* or without a result                                                     *)
NodeExecutionStatus(data) ==
    /\ UNCHANGED hostVars
    /\ IF "nodeId" \in DOMAIN data /\ "status" \in DOMAIN data
       THEN /\ \/ /\ data.status = "running"
                  /\ executingNodeId' = data.nodeId
                  /\ nodeErrors' = MapDelete(nodeErrors, data.nodeId)
                  /\ nodes' = nodes
               \/ /\ data.status = "error"
                  /\ executingNodeId' = NullId
                  /\ nodeErrors' = MapSet(nodeErrors, data.nodeId, ResultOrEmpty(data))
                  /\ nodes' = nodes
               \/ /\ data.status = "completed"
                  /\ executingNodeId' = NullId
                  /\ LET found == FindNode(nodes, data.nodeId)
                     IN  IF found # 0 /\ nodes[found].type = NodeTypePREVIEW
                         THEN nodes' = PreviewContent(nodes, nodes[found].id, data)
                         ELSE nodes' = nodes
                  /\ nodeErrors' = nodeErrors
               \/ /\ data.status \notin {"running", "error", "completed"}
                  /\ executingNodeId' = NullId
                  /\ nodeErrors' = nodeErrors
                  /\ nodes' = nodes
            /\ nodeResults' = MapSet(nodeResults, data.nodeId, ResultOrEmpty(data))
            /\ edges' = edges
            /\ EdgeOrderEffect
            /\ UNCHANGED <<isExecuting, abortController, toExtension>>
       ELSE UNCHANGED <<graphVars, uiVars>>

(* case 'execution_started' / case 'execution_completed' (376-381)         *)
ExecutionStarted ==
    /\ UNCHANGED hostVars
    /\ isExecuting' = TRUE
    /\ UNCHANGED <<graphVars, nodeErrors, nodeResults, executingNodeId, abortController,
                   toExtension>>

ExecutionCompleted ==
    /\ UNCHANGED hostVars
    /\ isExecuting' = FALSE
    /\ UNCHANGED <<graphVars, nodeErrors, nodeResults, executingNodeId, abortController,
                   toExtension>>

(* onClear (320-327)                                                       *)
onClear ==
    /\ nodes' = <<>>
    /\ edges' = <<>>
    /\ nodeErrors' = EmptyMap
    /\ nodeResults' = EmptyMap
    /\ executingNodeId' = NullId
    /\ EdgeOrderEffect
    /\ UNCHANGED <<isExecuting, abortController, toExtension>>
    /\ UNCHANGED hostVars

(***************************************************************************)
(* SpecUI: the webview on the graphs below, with the user's clicks and the *)
(* messages of the extension host as inputs.                               *)
(***************************************************************************)
Blank == <<" ", "\t">>
Texts == {<<>>, Blank, <<"a">>}

(* the data a node of each kind can have                                   *)
NodeKinds ==
    {[type |-> NodeTypeLLM, data |-> [label |-> "n"]]}
    \cup {[type |-> NodeTypeLLM, data |-> [label |-> "n", prompt |-> t]] : t \in Texts}
    \cup {[type |-> NodeTypeCLI, data |-> [label |-> "n", command |-> t]] : t \in {<<>>, <<"a">>}}
    \cup {[type |-> NodeTypePREVIEW, data |-> [label |-> "n", content |-> <<>>]]}

UINodeLists ==
    { [i \in DOMAIN k |-> Node(i, k[i].type, k[i].data)] :
        k \in UNION {[1..n -> NodeKinds] : n \in 0..MaxUINodes} }

(* onExecute hands the edges on without reading them: an edge list without *)
(* a cycle and one with a cycle, per node list                             *)
UIEdgeLists(ns) ==
    IF ns = <<>> THEN {<<>>}
    ELSE IF Len(ns) = 1 THEN {<<>>, <<Edge(1, 1, 1)>>}
    ELSE {<<Edge(1, 1, 2)>>, <<Edge(1, 1, 2), Edge(2, 2, 1)>>}

(* an LLM node without a prompt text before a CLI node without a command   *)
UIMixed ==
    [nodes |-> <<Node(1, NodeTypeLLM, [label |-> "n", prompt |-> Blank]),
                 Node(2, NodeTypeCLI, [label |-> "n", command |-> <<>>])>>,
     edges |-> <<Edge(1, 1, 2)>>]

(* command -> generate -> preview                                          *)
UIPipeline ==
    [nodes |-> <<Node(1, NodeTypeCLI, [label |-> "n", command |-> <<"a">>]),
                 Node(2, NodeTypeLLM, [label |-> "n", prompt |-> <<"a">>]),
                 Node(3, NodeTypePREVIEW, [label |-> "n", content |-> <<>>])>>,
     edges |-> <<Edge(1, 1, 2), Edge(2, 2, 3)>>]

(* A -> B -> A                                                             *)
UICycle ==
    [nodes |-> <<Node(1, NodeTypeCLI, [label |-> "n", command |-> <<"a">>]),
                 Node(2, NodeTypeLLM, [label |-> "n", prompt |-> <<"a">>])>>,
     edges |-> <<Edge(1, 1, 2), Edge(2, 2, 1)>>]

UIScenarios == {UIMixed, UIPipeline, UICycle}

InitUI ==
    /\ \/ nodes \in UINodeLists /\ edges \in UIEdgeLists(nodes)
       \/ \E g \in UIScenarios : nodes = g.nodes /\ edges = g.edges
    /\ sortedNodes = topologicalEdgeSort(nodes, edges)
    /\ edgeOrder = OrderMap(sortedNodes, edges)
    /\ pc = "ordered"
    /\ loop = NoLoop
    /\ InitUIState
    /\ InitHostState

(* the data of the node_execution_status messages the webview is given; a  *)
(* completed event without a result is given to the graphs of one node     *)
Statuses == {"running", "error", "completed", "pending"}

StatusData(ns) ==
    {[nodeId |-> id, status |-> "running"] : id \in IdsOf(ns)}
    \cup {[nodeId |-> id, status |-> st, result |-> <<"r">>] :
            id \in IdsOf(ns), st \in Statuses \ {"running"}}
    \cup {[nodeId |-> id, status |-> "completed"] :
            id \in IF Len(ns) = 1 THEN IdsOf(ns) ELSE {}}
    \cup {[status |-> "completed", result |-> <<"r">>]}

messageHandler ==
    \/ \E data \in StatusData(nodes) : NodeExecutionStatus(data)
    \/ ExecutionStarted
    \/ ExecutionCompleted

NextUI ==
    \/ onExecute
    \/ onAbort
    \/ onClear
    \/ messageHandler

SpecUI == InitUI /\ [][NextUI]_vars


(***************************************************************************)
(* Properties of nodes, stated without the code's validation.              *)
(***************************************************************************)
(* a Generate (LLM) node whose prompt is undefined, empty or whitespace    *)
BlankPrompt(node) ==
    /\ node.type = NodeTypeLLM
    /\ "prompt" \in DOMAIN node.data
          => \A i \in DOMAIN node.data.prompt : IsWhitespace(node.data.prompt[i])

(* a Command (CLI) node whose command text is undefined or empty           *)
EmptyCommand(node) ==
    /\ node.type = NodeTypeCLI
    /\ "command" \in DOMAIN node.data => node.data.command = <<>>

BlankPromptIds(ns) == {ns[i].id : i \in {j \in DOMAIN ns : BlankPrompt(ns[j])}}

EmptyCommandIds(ns) == {ns[i].id : i \in {j \in DOMAIN ns : EmptyCommand(ns[j])}}

(***************************************************************************)
(* C4 as stated: for a graph with a cycle (a self-loop too) onExecute does *)
(* not post execute_workflow.                                              *)
(***************************************************************************)
C4_CyclicGraphNotPosted ==
    [][(onExecute /\ Cyclic(edges)) => toExtension' = toExtension]_vars

(***************************************************************************)
(* C5: if some LLM node has an empty or whitespace-only prompt, onExecute  *)
(* posts no message and creates no abort controller, nodeErrors becomes    *)
(* exactly the map from each such node's id to "Prompt field is required", *)
(* and no node leaves Idle (nothing is marked executing, no result is      *)
(* recorded, no node changes).                                             *)
(***************************************************************************)
C5_BlankPromptRejected ==
    [][(onExecute /\ BlankPromptIds(nodes) # {}) =>
          /\ toExtension' = toExtension
          /\ abortController' = abortController
          /\ nodeErrors' = [id \in BlankPromptIds(nodes) |-> PromptRequired]
          /\ executingNodeId' = executingNodeId
          /\ nodeResults' = nodeResults
          /\ nodes' = nodes]_vars

(* onExecute has refused the mixed graph after a run had left a result and *)
(* an error on the other node: only the LLM node is reported               *)
C5_Witness ==
    /\ nodes = UIMixed.nodes
    /\ BlankPromptIds(nodes) = {1}
    /\ nodeErrors = [id \in {1} |-> PromptRequired]
    /\ MapHas(nodeResults, 2)
    /\ toExtension = <<>>
    /\ abortController = NoController


(***************************************************************************)
(* C13 as stated: per-node run state is created fresh at run start.  When  *)
(* onExecute passes validation and posts execute_workflow, no node carries *)
(* an error or a result of an earlier run: nodeErrors and nodeResults are  *)
(* both empty.                                                             *)
(***************************************************************************)
C13_FreshRunState ==
    [][(onExecute /\ toExtension' # toExtension)
          => nodeErrors' = EmptyMap /\ nodeResults' = EmptyMap]_vars

(***************************************************************************)
(* C6 as stated: if some CLI node has empty command text, onExecute posts  *)
(* no execute_workflow message and reports the node with "Command field    *)
(* is required".                                                           *)
(***************************************************************************)
C6_EmptyCommandRejected ==
    [][(onExecute /\ EmptyCommandIds(nodes) # {}) =>
          /\ toExtension' = toExtension
          /\ \A id \in EmptyCommandIds(nodes) :
                MapHas(nodeErrors', id) /\ nodeErrors'[id] = CommandRequired]_vars

(***************************************************************************)
(* C14: when a node_execution_status event with status completed arrives   *)
(* for a Preview node, that node's content becomes the event's result (no  *)
(* content if the event has no result) and nothing else of it changes; a   *)
(* completed event for a node of another kind, and every running, error or *)
(* other event, leaves every node as it was.                               *)
(***************************************************************************)
CompletedPreview(data, node) ==
    /\ "nodeId" \in DOMAIN data
    /\ "status" \in DOMAIN data
    /\ data.status = "completed"
    /\ node.id = data.nodeId
    /\ node.type = NodeTypePREVIEW

C14_PreviewShowsResult ==
    [][\A data \in StatusData(nodes) :
          NodeExecutionStatus(data)
              => /\ DOMAIN nodes' = DOMAIN nodes
                 /\ \A i \in DOMAIN nodes :
                       IF CompletedPreview(data, nodes[i])
                       THEN /\ nodes'[i].id = nodes[i].id
                            /\ nodes'[i].type = nodes[i].type
                            /\ nodes'[i].data.label = nodes[i].data.label
                            /\ IF "result" \in DOMAIN data
                               THEN nodes'[i].data.content = data.result
                               ELSE "content" \notin DOMAIN nodes'[i].data
                       ELSE nodes'[i] = nodes[i]]_vars

(* the preview node of the pipeline shows the result of its completed      *)
(* event, the other nodes are as they were                                 *)
C14_Witness ==
    /\ Len(nodes) = 3
    /\ nodes[1] = UIPipeline.nodes[1]
    /\ nodes[2] = UIPipeline.nodes[2]
    /\ nodes[3] = Node(3, NodeTypePREVIEW, [label |-> "n", content |-> <<"r">>])
    /\ MapHas(nodeResults, 3) /\ nodeResults[3] = <<"r">>
    /\ MapHas(nodeResults, 1)
    /\ executingNodeId = NullId


(***************************************************************************)
(* C19 as stated: after the webview has received execution_completed for a *)
(* run no node is displayed as executing: executingNodeId is null, also    *)
(* when a running event of a node is followed directly by the terminal     *)
(* event of the run.                                                       *)
(***************************************************************************)
C19_NothingExecutingAfterCompleted ==
    [][ExecutionCompleted => executingNodeId' = NullId]_vars


(***************************************************************************)
(* What one call of onExecute does when it lets the graph pass: the        *)
(* entries of nodeErrors are gone, exactly one message is posted, an       *)
(* execute_workflow whose data is the node list and the edge list of the   *)
(* moment of the call, and nodes and edges are as they were.               *)
(***************************************************************************)
(* a Generate (LLM) node whose prompt is undefined or the empty text       *)
EmptyPrompt(node) ==
    /\ node.type = NodeTypeLLM
    /\ "prompt" \in DOMAIN node.data => node.data.prompt = <<>>

EmptyPromptIds(ns) == {ns[i].id : i \in {j \in DOMAIN ns : EmptyPrompt(ns[j])}}

ExecutePosted ==
    /\ nodeErrors' = EmptyMap
    /\ toExtension' = Append(toExtension,
                             [type |-> "execute_workflow",
                              data |-> [nodes |-> nodes, edges |-> edges]])
    /\ nodes' = nodes
    /\ edges' = edges

(***************************************************************************)
(* C20 as stated: if no LLM node has an empty prompt, one call of          *)
(* onExecute clears nodeErrors and posts exactly one execute_workflow      *)
(* message with the current node list and edge list; nodes and edges are   *)
(* unchanged.                                                              *)
(***************************************************************************)
C20_PostedUnlessEmptyPrompt ==
    [][(onExecute /\ EmptyPromptIds(nodes) = {}) => ExecutePosted]_vars

(***************************************************************************)
(* C20 amended: if no LLM node has a prompt that is undefined, empty or    *)
(* made of whitespace only, one call of onExecute clears nodeErrors and    *)
(* posts exactly one execute_workflow message with the current node list   *)
(* and edge list; nodes and edges are unchanged.                           *)
(***************************************************************************)
C20_PostedUnlessBlankPrompt ==
    [][(onExecute /\ BlankPromptIds(nodes) = {}) => ExecutePosted]_vars

(* the pipeline was posted by the first click: an error event of an        *)
(* earlier attempt had left its text on node 2, and no error is shown      *)
C20_Witness ==
    /\ nodes = UIPipeline.nodes /\ edges = UIPipeline.edges
    /\ BlankPromptIds(nodes) = {}
    /\ toExtension = <<[type |-> "execute_workflow",
                        data |-> [nodes |-> nodes, edges |-> edges]]>>
    /\ abortController = [id |-> 1]
    /\ nodeErrors = EmptyMap
    /\ MapHas(nodeResults, 2) /\ nodeResults[2] = <<"r">>


(***************************************************************************)
(* C21: onAbort posts an abort_workflow message only if a UI abort         *)
(* controller is set, and then clears it.  In the messages posted, an      *)
(* abort_workflow always follows an execute_workflow directly: there is    *)
(* none before the first successful onExecute and at most one between two  *)
(* successful onExecute calls, however often onAbort is invoked; and a     *)
(* controller is set exactly while the last message is execute_workflow.   *)
(***************************************************************************)
IsAbortWorkflow(message) == message.type = "abort_workflow"

C21_OneAbortPerExecute ==
    /\ \A i \in DOMAIN toExtension :
          IsAbortWorkflow(toExtension[i])
              => i > 1 /\ IsExecuteWorkflow(toExtension[i - 1])
    /\ abortController # NoController
          <=> /\ toExtension # <<>>
              /\ IsExecuteWorkflow(toExtension[Len(toExtension)])

(* the run of the pipeline was aborted: one abort_workflow follows the     *)
(* execute_workflow and the controller is cleared                          *)
C21_Witness ==
    /\ nodes = UIPipeline.nodes
    /\ Len(toExtension) = 2
    /\ IsExecuteWorkflow(toExtension[1])
    /\ toExtension[2] = [type |-> "abort_workflow"]
    /\ abortController = NoController


(***************************************************************************)
(* The extension host: registerWorkflowCommands (workflow.ts 21-105).      *)
(* activeAbortController is one variable of registerWorkflowCommands, the  *)
(* same for every panel the command opens.  The handler of a message is    *)
(* async: at `await executeWorkflow(...)` it gives way to other messages,  *)
(* and goes on (the finally block) when the call settles.                  *)
(***************************************************************************)
OpenPanels == {p \in DOMAIN panels : panels[p] = "open"}

Handled(type, p) == lastMessage' = [type |-> type, panel |-> p]

(* vscode.commands.registerCommand('cody.openWorkflowEditor', ...) (24-34) *)
openWorkflowEditor ==
    /\ Len(panels) < MaxPanels
    /\ panels' = Append(panels, "open")
    /\ Handled("open", Len(panels) + 1)
    /\ UNCHANGED <<activeAbortController, aborted, calls, fromExtension>>
    /\ UNCHANGED <<graphVars, uiVars>>

(* faulty variant: one controller is made once and used for every run       *)
NewAbortController_Reused == [id |-> 1]

(* new AbortController() (55): an object no earlier call has made, its     *)
(* signal not aborted                                                      *)
NewAbortController == [id |-> Len(aborted) + 1]

(* case 'execute_workflow' up to the await (53-63): hasData is             *)
(* message.data?.nodes && message.data?.edges                              *)
execute_workflow(p, hasData) ==
    /\ p \in OpenPanels
    /\ IF hasData
       THEN /\ Len(aborted) < MaxRuns
            /\ LET controller == NewAbortController
               IN  /\ aborted' = Append(aborted, FALSE)
                   /\ activeAbortController' = controller
                   /\ calls' = calls \cup {[controller |-> controller, panel |-> p]}
       ELSE UNCHANGED <<activeAbortController, aborted, calls>>
    /\ Handled("execute_workflow", p)
    /\ UNCHANGED <<panels, fromExtension>>
    /\ UNCHANGED <<graphVars, uiVars>>

(* faulty variant: no finally block, the controller stays registered        *)
AfterExecuteWorkflow_Kept == activeAbortController

(* finally { activeAbortController = null } (64-66)                        *)
AfterExecuteWorkflow == NoController

(* the awaited executeWorkflow call returns: the finally block runs        *)
executeWorkflowReturns(call) ==
    /\ call \in calls
    /\ calls' = calls \ {call}
    /\ activeAbortController' = AfterExecuteWorkflow
    /\ Handled("returned", call.panel)
    /\ UNCHANGED <<panels, aborted, fromExtension>>
    /\ UNCHANGED <<graphVars, uiVars>>

(* the awaited executeWorkflow call throws: the finally block runs and the *)
(* handler's promise is rejected                                           *)
executeWorkflowThrows(call) ==
    /\ call \in calls
    /\ calls' = calls \ {call}
    /\ activeAbortController' = AfterExecuteWorkflow
    /\ Handled("threw", call.panel)
    /\ UNCHANGED <<panels, aborted, fromExtension>>
    /\ UNCHANGED <<graphVars, uiVars>>

(* activeAbortController.abort(): the signal of that controller is aborted *)
Abort(controller) == [aborted EXCEPT ![controller.id] = TRUE]

(* case 'abort_workflow' (70-75)                                           *)
abort_workflow(p) ==
    /\ p \in OpenPanels
    /\ IF activeAbortController # NoController
       THEN /\ aborted' = Abort(activeAbortController)
            /\ activeAbortController' = NoController
       ELSE UNCHANGED <<activeAbortController, aborted>>
    /\ Handled("abort_workflow", p)
    /\ UNCHANGED <<panels, calls, fromExtension>>
    /\ UNCHANGED <<graphVars, uiVars>>

(* case 'save_workflow' (40-42): handleWorkflowSave writes a file          *)
save_workflow(p) ==
    /\ p \in OpenPanels
    /\ Handled("save_workflow", p)
    /\ UNCHANGED <<panels, activeAbortController, aborted, calls, fromExtension>>
    /\ UNCHANGED <<graphVars, uiVars>>

(* case 'load_workflow' (43-52): loaded is whether handleWorkflowLoad gave *)
(* data                                                                    *)
load_workflow(p, loaded) ==
    /\ p \in OpenPanels
    /\ IF loaded
       THEN /\ Len(fromExtension) < MaxLoads
            /\ fromExtension' = Append(fromExtension, [type |-> "workflow_loaded", panel |-> p])
       ELSE UNCHANGED fromExtension
    /\ Handled("load_workflow", p)
    /\ UNCHANGED <<panels, activeAbortController, aborted, calls>>
    /\ UNCHANGED <<graphVars, uiVars>>

(* panel.onDidDispose (83-89)                                              *)
onDidDispose(p) ==
    /\ p \in OpenPanels
    /\ IF activeAbortController # NoController
       THEN /\ aborted' = Abort(activeAbortController)
            /\ activeAbortController' = NoController
       ELSE UNCHANGED <<activeAbortController, aborted>>
    /\ panels' = [panels EXCEPT ![p] = "disposed"]
    /\ Handled("disposed", p)
    /\ UNCHANGED <<calls, fromExtension>>
    /\ UNCHANGED <<graphVars, uiVars>>

(***************************************************************************)
(* SpecHost: the extension host under every order of the commands, the     *)
(* messages of the webviews and the returns of the executeWorkflow calls.  *)
(***************************************************************************)
InitHost ==
    /\ nodes = <<>>
    /\ edges = <<>>
    /\ edgeOrder = EmptyMap
    /\ sortedNodes = <<>>
    /\ pc = "ordered"
    /\ loop = NoLoop
    /\ InitUIState
    /\ InitHostState

NextHost ==
    \/ openWorkflowEditor
    \/ \E p \in DOMAIN panels, hasData \in BOOLEAN : execute_workflow(p, hasData)
    \/ \E call \in calls : executeWorkflowReturns(call)
    \/ \E call \in calls : executeWorkflowThrows(call)
    \/ \E p \in DOMAIN panels : abort_workflow(p)
    \/ \E p \in DOMAIN panels : save_workflow(p)
    \/ \E p \in DOMAIN panels, loaded \in BOOLEAN : load_workflow(p, loaded)
    \/ \E p \in DOMAIN panels : onDidDispose(p)

SpecHost == InitHost /\ [][NextHost]_vars


(***************************************************************************)
(* Runs of the extension host.  A session is a panel; a run in flight is   *)
(* an executeWorkflow call that has not returned.                          *)
(***************************************************************************)
CallsOf(p) == {call \in calls : call.panel = p}

SignalAborted(call) == aborted[call.controller.id]

SignalAbortedAfter(call) == aborted'[call.controller.id]

(* no run is in flight, or every run in flight was cancelled already       *)
NoLiveRun == \A call \in calls : SignalAborted(call)

(***************************************************************************)
(* C2 as stated: at most one run is active per session; an                 *)
(* execute_workflow that arrives while an executeWorkflow call is in       *)
(* flight never results in two calls being in flight at once.              *)
(***************************************************************************)
C2_OneRunPerSession == \A p \in DOMAIN panels : Cardinality(CallsOf(p)) <= 1

(***************************************************************************)
(* C3 as stated: when abort_workflow is handled while an executeWorkflow   *)
(* call is in flight, the signal passed to that call becomes aborted, also *)
(* when an earlier, cancelled run returns after the new run has started.   *)
(* Stated for one panel and one call in flight.                            *)
(***************************************************************************)
C3_AbortReachesRun ==
    [][\A p \in DOMAIN panels :
          (abort_workflow(p) /\ Len(panels) = 1 /\ Cardinality(calls) = 1)
              => \A call \in calls : SignalAbortedAfter(call)]_vars

(***************************************************************************)
(* C10: abort_workflow handled when no run is in flight (none started, the *)
(* last one finished, or the run cancelled already) aborts no signal,      *)
(* leaves activeAbortController null and posts nothing to the webview.     *)
(***************************************************************************)
C10_AbortWithoutRunIsNoOp ==
    [][\A p \in DOMAIN panels :
          (abort_workflow(p) /\ NoLiveRun)
              => /\ aborted' = aborted
                 /\ activeAbortController = NoController
                 /\ activeAbortController' = NoController
                 /\ fromExtension' = fromExtension
                 /\ calls' = calls]_vars

(* a second abort_workflow for a run that was cancelled and is still in    *)
(* flight has been handled                                                 *)
C10_Witness ==
    /\ lastMessage.type = "abort_workflow"
    /\ calls # {}
    /\ NoLiveRun
    /\ activeAbortController = NoController


(***************************************************************************)
(* C11: the cancellation signal is one-shot per run.  Every                *)
(* executeWorkflow call is started with the signal of an AbortController   *)
(* made for that call (no earlier call was given it, no run in flight      *)
(* holds it) that is not aborted at the moment of the call, and it is that *)
(* controller which is registered: a controller aborted for one run is     *)
(* never the registered controller of a later run.                         *)
(***************************************************************************)
C11_FreshSignalPerRun ==
    [][\A p \in DOMAIN panels :
          (execute_workflow(p, TRUE))
              => /\ activeAbortController'.id \notin DOMAIN aborted
                 /\ \A call \in calls : call.controller # activeAbortController'
                 /\ aborted'[activeAbortController'.id] = FALSE
                 /\ calls' \ calls =
                        {[controller |-> activeAbortController', panel |-> p]}
                 /\ \A k \in DOMAIN aborted : aborted'[k] = aborted[k]]_vars

(* a run was aborted, and a second run has been started: the second run's  *)
(* controller is registered and its signal is not aborted                  *)
C11_Witness ==
    /\ lastMessage.type = "execute_workflow"
    /\ Len(aborted) = 2
    /\ aborted[1] /\ ~aborted[2]
    /\ activeAbortController = [id |-> 2]
    /\ \E call \in calls : call.controller = [id |-> 2]

(***************************************************************************)
(* C12 as stated: run state is owned by the session (panel) that created   *)
(* it.  An abort_workflow message from a panel, the disposal of a panel or *)
(* the end of a run of a panel never aborts the signal of a run started    *)
(* from another panel and never unregisters that run's controller.         *)
(***************************************************************************)
C12_RunOwnedBySession ==
    [][\A q \in DOMAIN panels :
          (\/ abort_workflow(q)
           \/ onDidDispose(q)
           \/ \E ended \in CallsOf(q) :
                 executeWorkflowReturns(ended) \/ executeWorkflowThrows(ended))
              => \A call \in calls :
                    call.panel # q
                        => /\ SignalAbortedAfter(call) = SignalAborted(call)
                           /\ activeAbortController = call.controller
                                 => activeAbortController' = call.controller]_vars

(***************************************************************************)
(* C18: however an executeWorkflow call ends (it returns, it throws, it    *)
(* returns after its signal was aborted), activeAbortController is null    *)
(* immediately afterwards; and the next execute_workflow message that      *)
(* carries nodes and edges starts a run with a newly made controller,      *)
(* which is the registered one.                                            *)
(***************************************************************************)
C18_ControllerReleasedAtEnd ==
    [][/\ \A call \in calls :
             (executeWorkflowReturns(call) \/ executeWorkflowThrows(call))
                 => activeAbortController' = NoController
       /\ \A p \in DOMAIN panels :
             (execute_workflow(p, TRUE) /\ lastMessage.type \in {"returned", "threw"})
                 => /\ activeAbortController' # NoController
                    /\ activeAbortController'.id \notin DOMAIN aborted
                    /\ [controller |-> activeAbortController', panel |-> p] \in calls'
                    /\ ~aborted'[activeAbortController'.id]]_vars

(* a run was aborted and has ended; the next run is in flight with its own *)
(* controller registered                                                   *)
C18_Witness ==
    /\ lastMessage.type = "execute_workflow"
    /\ Len(aborted) = 2
    /\ aborted[1] /\ ~aborted[2]
    /\ Cardinality(calls) = 1
    /\ \A call \in calls : call.controller = [id |-> 2]
    /\ activeAbortController = [id |-> 2]
=============================================================================
